---- MODULE Spec2Model ----
(***************************************************************************)
(* Model of pass-fun (src/src/main.rs): the Charset enumerator, the table  *)
(* builder gen_htable, the table scanner use_htable, the brute-force       *)
(* searcher and the credential store's Database::with.                     *)
(*                                                                         *)
(* Bytes are natural numbers (97 = 'a', 98 = 'b', ...), strings and            *)
(* buffers are sequences of bytes, digests are natural numbers.            *)
(***************************************************************************)
EXTENDS Integers, Sequences, FiniteSets, TLC

\* ------------------------------------------------------------------ bounds
\* Number of distinct byte values an alphabet may draw from (97, 98, ...).
NumBytes == 2
\* Longest alphabet of the enumerator specification.
MaxCharsetLen == 3
\* Longest candidate buffer of the enumerator specification.
MaxLen == 2
\* Size of the modelled digest space (digests are 1 .. DigestSpace).
DigestSpace == 3

\* ------------------------------------------------------------- constants
HASH_LENGTH == 16

Bytes == 97 .. (96 + NumBytes)

RECURSIVE Pow(_, _)
\* u64::pow as used by Charset::range
Pow(n, e) == IF e = 0 THEN 1 ELSE n * Pow(n, e - 1)

\* All byte strings of length lo..hi over Bytes.
Strings(lo, hi) == UNION { [1 .. k -> Bytes] : k \in lo .. hi }

\* The bytes an alphabet of the enumerator specification draws from: enough
\* for its longest alphabet to have no byte twice.
EnumBytes == 97 .. (96 + MaxCharsetLen)

\* ---------------------------------------------------------------- Charset
\* Charset::range(output_len).end
RangeEnd(charset, output_len) == Pow(Len(charset), output_len)

\* let modulo = remain % n;
Modulo(remain, n) == remain % n

\* Mutant of SlotByte: the digit is not used.
SlotByteFirst(charset, modulo) == charset[1]

\* *slot = self.0[modulo as usize];   (Rust indexes from 0, TLA+ from 1)
SlotByte(charset, modulo) == charset[modulo + 1]

\* Mutant of NextRemain: the division rounds up.
NextRemainNoSub(remain, modulo, n) == (remain + n - 1) \div n

\* remain = (remain - modulo) / n;
NextRemain(remain, modulo, n) == (remain - modulo) \div n

RECURSIVE GetIntoLoop(_, _, _, _)
\* for slot in buf.iter_mut() { ... }: k is the position of the next slot.
GetIntoLoop(charset, remain, buf, k) ==
  IF k > Len(buf) THEN buf
  ELSE LET n == Len(charset)
           modulo == Modulo(remain, n)
       IN GetIntoLoop(charset, NextRemain(remain, modulo, n),
                      [buf EXCEPT ![k] = SlotByte(charset, modulo)], k + 1)

\* Charset::get_into(i, buf): the buffer after the call.
GetInto(charset, i, buf) == GetIntoLoop(charset, i, buf, 1)

\* get_into panics (remainder by zero) on an empty alphabet and a non-empty
\* buffer; otherwise it returns.
GetIntoPanics(charset, buf) == Len(charset) = 0 /\ Len(buf) > 0

\* vec![0u8; len]
ZeroBuf(len) == [k \in 1 .. len |-> 0]

\* ------------------------------------------------------------- variables
VARIABLES
  \* enumerator: one Charset, one reusable buffer, the index of the call
  eCharset, eIndex, eBuf, ePc,
  \* the program's literals: the alphabet and the candidate length
  cfg,
  \* users.db and table.db
  dbFile, table,
  \* the command being run, and its position
  cmd, pc,
  \* gen_htable: locals, and the history of its writes and mapped windows
  gen, gMapped, gWrites, gWindows, genResult,
  \* use_htable: locals, what it printed, which entries it visited, how it ended
  scan, sOut, sVisits, useResult,
  \* bruteforce: locals, what it printed, how it ended
  brute, bOut, bruteResult,
  \* concurrent invocations of the program going through Database::with: each
  \* one's position and locals, the history of what each saw and did, and the
  \* invocation whose save completed last
  proc, hist, lastWriter

enumVars == <<eCharset, eIndex, eBuf, ePc>>

\* A Charset built by Charset::from (any byte string, duplicates allowed), a
\* buffer of some length, fresh from vec![0u8; len] or left full by an earlier
\* iteration, and an index; get_into is then called once.
EnumInit ==
  /\ eCharset \in UNION { [1 .. k -> EnumBytes] : k \in 0 .. MaxCharsetLen }
  /\ eBuf \in { ZeroBuf(l) : l \in 0 .. MaxLen }
             \cup { [k \in 1 .. l |-> 96 + MaxCharsetLen] : l \in 0 .. MaxLen }
  /\ eIndex \in 0 .. RangeEnd(eCharset, Len(eBuf))
  /\ ePc = "call"

\* Charset::get_into returning normally
GetIntoCall ==
  /\ ePc = "call"
  /\ ~GetIntoPanics(eCharset, eBuf)
  /\ eBuf' = GetInto(eCharset, eIndex, eBuf)
  /\ ePc' = "returned"
  /\ UNCHANGED <<eCharset, eIndex, cfg, dbFile, table, cmd, pc, gen, gMapped,
                 gWrites, gWindows, genResult, scan, sOut, sVisits, useResult,
                 brute, bOut, bruteResult, proc, hist, lastWriter>>

\* Charset::get_into panicking on `remain % n` with n = 0
GetIntoPanic ==
  /\ ePc = "call"
  /\ GetIntoPanics(eCharset, eBuf)
  /\ ePc' = "panicked"
  /\ UNCHANGED <<eCharset, eIndex, eBuf, cfg, dbFile, table, cmd, pc, gen,
                 gMapped, gWrites, gWindows, genResult, scan, sOut, sVisits,
                 useResult, brute, bOut, bruteResult, proc, hist, lastWriter>>

\* ------------------------------------------------------ claims: enumerator
\* The index is inside Charset::range(L)
InRange(charset, i, len) == i >= 0 /\ i < RangeEnd(charset, len)

\* Position (from 0) of the first occurrence of a byte in the alphabet.
PositionOf(byte, charset) ==
  (CHOOSE p \in 1 .. Len(charset) :
      charset[p] = byte /\ \A q \in 1 .. (p - 1) : charset[q] # byte) - 1

RECURSIVE ComposeFrom(_, _, _)
\* Inverse mixed-radix composition: sum over k of PositionOf(buf[k]) * n^(k-1).
ComposeFrom(charset, buf, k) ==
  IF k > Len(buf) THEN 0
  ELSE PositionOf(buf[k], charset) * Pow(Len(charset), k - 1)
       + ComposeFrom(charset, buf, k + 1)

ComposeIndex(charset, buf) == ComposeFrom(charset, buf, 1)

DistinctBytes(charset) ==
  \A p, q \in 1 .. Len(charset) : p # q => charset[p] # charset[q]

\* C3: after get_into(i, buf) with an alphabet of n bytes, every position k
\* (from 0) of the buffer holds alphabet[(i div n^k) mod n], the least
\* significant base-n digit first; for alphabet "ab" and L = 2 the indices
\* 0,1,2,3 give "aa","ba","ab","bb".
C3_GetIntoDigits ==
  ePc = "returned" =>
    /\ \A k \in 1 .. Len(eBuf) :
         eBuf[k] = eCharset[((eIndex \div Pow(Len(eCharset), k - 1))
                              % Len(eCharset)) + 1]
    /\ (eCharset = <<97, 98>> /\ Len(eBuf) = 2 /\ eIndex \in 0 .. 3) =>
         eBuf = <<  <<97, 97>>, <<98, 97>>, <<97, 98>>, <<98, 98>>  >>[eIndex + 1]

\* C3 witness: alphabet "ab", L = 2, index 2 has been decoded to "ab".
C3_Witness ==
  /\ ePc = "returned"
  /\ eCharset = <<97, 98>>
  /\ eIndex = 2
  /\ eBuf = <<97, 98>>

\* C4 as stated: for every alphabet, every L and every i < n^L, composing
\* the decoded candidate back gives i.
C4_RoundTripAnyAlphabet ==
  (ePc = "returned" /\ InRange(eCharset, eIndex, Len(eBuf))) =>
     ComposeIndex(eCharset, eBuf) = eIndex

\* C4 amended: the round trip returns i for every alphabet whose bytes are
\* pairwise distinct.
C4_RoundTripDistinct ==
  (ePc = "returned" /\ InRange(eCharset, eIndex, Len(eBuf))
     /\ DistinctBytes(eCharset)) =>
     ComposeIndex(eCharset, eBuf) = eIndex

\* C4 witness: a two-byte alphabet of distinct bytes, a two-byte buffer and
\* an index whose two digits are both non-zero, decoded and composed back.
C4_Witness ==
  /\ ePc = "returned"
  /\ Len(eCharset) = 2 /\ DistinctBytes(eCharset)
  /\ Len(eBuf) = 2
  /\ eIndex = 3
  /\ ComposeIndex(eCharset, eBuf) = 3

\* ============================================================ table engine
\* Largest table (n^L entries) of the table specification.
MaxTableEntries == 4
\* Longest alphabet of the table specification.
TblMaxCharsetLen == 2
\* Largest number of hashes per chunk a build is run with.
MaxChunkHashes == 5

RECURSIVE Md5Sum(_)
Md5Sum(buf) ==
  IF buf = <<>> THEN 1
  ELSE (Md5Sum(Tail(buf)) * 2 + Head(buf)) % DigestSpace

\* md5::compute, abstracted: a fixed function from byte strings into a small
\* digest space 1 .. DigestSpace, with collisions; no string has the digest
\* made of 16 zero bytes.
Md5(buf) == 1 + Md5Sum(buf)

\* The 16 zero bytes a file extended by set_len holds where nothing was written.
ZeroDigest == 0

\* bincode's size of TableHeader { len: u32, charset: Vec<u8> }: 4 bytes, an
\* 8-byte length prefix, the bytes.
HeaderSize(charset) == 4 + 8 + Len(charset)

NoTable == [exists |-> FALSE, len |-> 0, header |-> <<>>, data |-> <<>>]

\* File::create("table.db"): the file exists and is empty.
CreatedTable == [exists |-> TRUE, len |-> 0, header |-> <<>>, data |-> <<>>]

\* bincode::serialize_into(&mut file, &TableHeader { len, charset })
WithHeader(t, item_len, charset) ==
  [t EXCEPT !.header = << [len |-> item_len, charset |-> charset] >>,
            !.len = HeaderSize(charset)]

\* Mutant of FileLen: the header is not counted.
FileLenNoHeader(hashes_offset_in_file, total_hashes) ==
  total_hashes * HASH_LENGTH

\* let hashes_len = total_hashes * HASH_LENGTH; file_len = offset + hashes_len
FileLen(hashes_offset_in_file, total_hashes) ==
  hashes_offset_in_file + total_hashes * HASH_LENGTH

\* Number of whole digests between the header and the end of the file.
SlotsIn(t) ==
  IF t.header = <<>> THEN 0
  ELSE (t.len - HeaderSize(t.header[1].charset)) \div HASH_LENGTH

\* file.set_len(file_len): the bytes added read as zero.
SetLen(t, file_len) ==
  LET t2 == [t EXCEPT !.len = file_len]
  IN [t2 EXCEPT !.data = [j \in 1 .. SlotsIn(t2) |->
                            IF j <= Len(t.data) THEN t.data[j] ELSE ZeroDigest]]

\* let hashes_per_chunk = max_bytes_per_chunk / HASH_LENGTH
HashesPerChunk(max_bytes_per_chunk) == max_bytes_per_chunk \div HASH_LENGTH

\* let bytes_per_chunk = hashes_per_chunk * HASH_LENGTH
BytesPerChunk(max_bytes_per_chunk) ==
  HashesPerChunk(max_bytes_per_chunk) * HASH_LENGTH

\* let num_chunks = total_hashes / hashes_per_chunk
NumChunks(total_hashes, hashes_per_chunk) == total_hashes \div hashes_per_chunk

\* let chunk_offset_in_file = hashes_offset_in_file + chunk_index * bytes_per_chunk
ChunkOffsetInFile(hashes_offset_in_file, chunk_index, bytes_per_chunk) ==
  hashes_offset_in_file + chunk_index * bytes_per_chunk

\* Mutant of FirstItemIndex: a chunk starts on the last item of the one before.
FirstItemIndexOverlapping(chunk_index, hashes_per_chunk) ==
  IF chunk_index = 0 THEN 0 ELSE chunk_index * hashes_per_chunk - 1

\* let first_item_index = chunk_index * hashes_per_chunk
FirstItemIndex(chunk_index, hashes_per_chunk) == chunk_index * hashes_per_chunk

\* let item_index = first_item_index + index_in_chunk
ItemIndex(first_item_index, index_in_chunk) == first_item_index + index_in_chunk

\* The slot (from 1) of the table a write at this byte offset of the file lands in.
SlotAt(t, byte_offset) ==
  (byte_offset - HeaderSize(t.header[1].charset)) \div HASH_LENGTH + 1

\* *out = md5::compute(buf).0 through the mapped window
WriteDigest(t, byte_offset, digest) ==
  [t EXCEPT !.data[SlotAt(t, byte_offset)] = digest]

\* ---------------------------------------------------------------- users.db
Users == {"alice", "bob"}

\* The digests md5::compute can give.
Digests == 1 .. DigestSpace

EmptyRecords == [u \in {} |-> 0]

\* Database values: every map from some users to a digest.
Databases == UNION { [U -> Digests] : U \in SUBSET Users }

MissingDb == [state |-> "missing", records |-> EmptyRecords]

\* File::create(Self::PATH) before anything is serialized into it
TruncatedDb == [state |-> "truncated", records |-> EmptyRecords]

\* Database::save, completed
SavedDb(records) == [state |-> "ok", records |-> records]

\* Database::load_or_create: no file gives Default::default(), a file that
\* does not deserialize gives an error.
LoadOrCreate(f) ==
  IF f.state = "truncated" THEN [ok |-> FALSE, records |-> EmptyRecords]
  ELSE [ok |-> TRUE, records |-> f.records]

\* One more entry of a bag (a function from elements to counts).
BagAdd(bag, e) ==
  IF e \in DOMAIN bag THEN [bag EXCEPT ![e] = @ + 1] ELSE bag @@ (e :> 1)

EmptyBag == [e \in {} |-> 0]

UseIdle ==
  [len |-> 0, charset |-> <<>>, offset |-> 0, num_hashes |-> 0, map_len |-> 0,
   records |-> EmptyRecords, pending |-> {}]

BruteIdle ==
  [records |-> EmptyRecords, len_lo |-> 0, len_hi |-> 0, len |-> 0,
   searched |-> FALSE]

\* max_bytes_per_chunk values a build is run with: whole and ragged multiples
\* of HASH_LENGTH.
ChunkBytesChoices ==
  { c * HASH_LENGTH : c \in 1 .. MaxChunkHashes } \cup { 2 * HASH_LENGTH + 8 }

GenIdle ==
  [max_bytes_per_chunk |-> 0, hashes_offset_in_file |-> 0, chunk_index |-> 0,
   pending |-> {}]

TotalHashes == RangeEnd(cfg.charset, cfg.item_len)

\* main: Command::GenHtable(_) => gen_htable()
GenStart ==
  /\ cmd = "none"
  /\ \E mb \in ChunkBytesChoices :
       gen' = [GenIdle EXCEPT !.max_bytes_per_chunk = mb]
  /\ cmd' = "gen" /\ pc' = "create"
  /\ gMapped' = {} /\ gWrites' = {} /\ gWindows' = {} /\ genResult' = "running"
  /\ scan' = UseIdle /\ sOut' = EmptyBag /\ sVisits' = EmptyBag /\ useResult' = "none"
  /\ brute' = BruteIdle /\ bOut' = EmptyBag /\ bruteResult' = "none"
  /\ UNCHANGED <<eCharset, eIndex, eBuf, ePc, cfg, dbFile, table, proc, hist,
                 lastWriter>>

\* let mut file = File::create("table.db")?
GenCreate ==
  /\ cmd = "gen" /\ pc = "create"
  /\ table' = CreatedTable
  /\ pc' = "header"
  /\ UNCHANGED <<eCharset, eIndex, eBuf, ePc, cfg, dbFile, cmd, gen, gMapped,
                 gWrites, gWindows, genResult, scan, sOut, sVisits, useResult,
                 brute, bOut, bruteResult, proc, hist, lastWriter>>

\* bincode::serialize_into(...)?; file.seek(SeekFrom::Current(0))?
GenWriteHeader ==
  /\ cmd = "gen" /\ pc = "header"
  /\ table' = WithHeader(table, cfg.item_len, cfg.charset)
  /\ gen' = [gen EXCEPT !.hashes_offset_in_file = table'.len]
  /\ pc' = "set_len"
  /\ UNCHANGED <<eCharset, eIndex, eBuf, ePc, cfg, dbFile, cmd, gMapped,
                 gWrites, gWindows, genResult, scan, sOut, sVisits, useResult,
                 brute, bOut, bruteResult, proc, hist, lastWriter>>

\* file.set_len(file_len)?
GenSetLen ==
  /\ cmd = "gen" /\ pc = "set_len"
  /\ table' = SetLen(table, FileLen(gen.hashes_offset_in_file, TotalHashes))
  /\ pc' = "loop"
  /\ UNCHANGED <<eCharset, eIndex, eBuf, ePc, cfg, dbFile, cmd, gen, gMapped,
                 gWrites, gWindows, genResult, scan, sOut, sVisits, useResult,
                 brute, bOut, bruteResult, proc, hist, lastWriter>>

\* for chunk_index in 0..num_chunks: open the file and map the chunk's window
GenOpenChunk ==
  /\ cmd = "gen" /\ pc = "loop"
  /\ gen.chunk_index < NumChunks(TotalHashes, HashesPerChunk(gen.max_bytes_per_chunk))
  /\ table.exists
  /\ LET lo == ChunkOffsetInFile(gen.hashes_offset_in_file, gen.chunk_index,
                                 BytesPerChunk(gen.max_bytes_per_chunk))
         w == <<lo, lo + BytesPerChunk(gen.max_bytes_per_chunk)>>
     IN /\ gMapped' = gMapped \cup {w}
        /\ gWindows' = gWindows \cup { <<gen.chunk_index, w>> }
  /\ gen' = [gen EXCEPT !.pending = 0 .. (HashesPerChunk(gen.max_bytes_per_chunk) - 1)]
  /\ pc' = "fill"
  /\ UNCHANGED <<eCharset, eIndex, eBuf, ePc, cfg, dbFile, table, cmd,
                 gWrites, genResult, scan, sOut, sVisits, useResult, brute,
                 bOut, bruteResult, proc, hist, lastWriter>>

\* one task of hashes.par_iter_mut().enumerate().for_each_with(...)
GenWriteHash ==
  /\ cmd = "gen" /\ pc = "fill"
  /\ \E index_in_chunk \in gen.pending :
       LET hpc == HashesPerChunk(gen.max_bytes_per_chunk)
           item_index == ItemIndex(FirstItemIndex(gen.chunk_index, hpc), index_in_chunk)
           buf == GetInto(cfg.charset, item_index, ZeroBuf(cfg.item_len))
           at == ChunkOffsetInFile(gen.hashes_offset_in_file, gen.chunk_index,
                                   BytesPerChunk(gen.max_bytes_per_chunk))
                 + index_in_chunk * HASH_LENGTH
       IN \* the slot lies inside the file (a write past its end would fault)
          /\ at + HASH_LENGTH <= table.len
          /\ table' = WriteDigest(table, at, Md5(buf))
          /\ gWrites' = gWrites \cup
               { [slot |-> SlotAt(table, at) - 1, item |-> item_index,
                  chunk |-> gen.chunk_index, index_in_chunk |-> index_in_chunk] }
          /\ gen' = [gen EXCEPT !.pending = @ \ {index_in_chunk}]
  /\ UNCHANGED <<eCharset, eIndex, eBuf, ePc, cfg, dbFile, cmd, pc, gMapped,
                 gWindows, genResult, scan, sOut, sVisits, useResult, brute,
                 bOut, bruteResult, proc, hist, lastWriter>>

\* end of the loop body: the window is dropped, the next chunk follows
GenCloseChunk ==
  /\ cmd = "gen" /\ pc = "fill" /\ gen.pending = {}
  /\ gMapped' = {}
  /\ gen' = [gen EXCEPT !.chunk_index = @ + 1]
  /\ pc' = "loop"
  /\ UNCHANGED <<eCharset, eIndex, eBuf, ePc, cfg, dbFile, table, cmd,
                 gWrites, gWindows, genResult, scan, sOut, sVisits, useResult,
                 brute, bOut, bruteResult, proc, hist, lastWriter>>

\* progress.finish(); Ok(())
GenFinish ==
  /\ cmd = "gen" /\ pc = "loop"
  /\ gen.chunk_index >= NumChunks(TotalHashes, HashesPerChunk(gen.max_bytes_per_chunk))
  /\ cmd' = "none" /\ pc' = "idle"
  /\ genResult' = "ok"
  /\ UNCHANGED <<eCharset, eIndex, eBuf, ePc, cfg, dbFile, table, gen,
                 gMapped, gWrites, gWindows, scan, sOut, sVisits, useResult,
                 brute, bOut, bruteResult, proc, hist, lastWriter>>

\* any `?` of gen_htable failing (File::create, serialize_into, seek, set_len,
\* OpenOptions::open, map_mut): the build returns the error, the file stays as
\* it is (and the history of the build's writes is no longer of interest)
GenError ==
  /\ cmd = "gen" /\ pc \in {"create", "header", "set_len", "loop"}
  /\ cmd' = "none" /\ pc' = "idle" /\ gen' = GenIdle
  /\ gMapped' = {} /\ gWrites' = {} /\ gWindows' = {}
  /\ genResult' = IF pc \in {"create", "header", "set_len"}
                  THEN "aborted_unsized" ELSE "aborted_sized"
  /\ UNCHANGED <<eCharset, eIndex, eBuf, ePc, cfg, dbFile, table, scan, sOut,
                 sVisits, useResult, brute, bOut, bruteResult, proc, hist,
                 lastWriter>>

\* ------------------------------------------------------------- use_htable
\* main: Command::UseHtable(_) => use_htable()
UseStart ==
  /\ cmd = "none"
  /\ cmd' = "use" /\ pc' = "open"
  /\ scan' = UseIdle /\ sOut' = EmptyBag /\ sVisits' = EmptyBag
  /\ useResult' = IF genResult = "ok" THEN "running_fresh" ELSE "running"
  /\ UNCHANGED <<eCharset, eIndex, eBuf, ePc, cfg, dbFile, table, gen,
                 gMapped, gWrites, gWindows, genResult, brute, bOut,
                 bruteResult, proc, hist, lastWriter>>

\* File::open("table.db")? or bincode::deserialize_from(&mut file)? failing
UseOpenFails == ~table.exists \/ table.header = <<>>

\* use_htable returning the error of File::open or of the header's deserializer
UseOpenError ==
  /\ cmd = "use" /\ pc = "open"
  /\ UseOpenFails
  /\ cmd' = "none" /\ pc' = "idle" /\ useResult' = "error"
  /\ scan' = UseIdle
  /\ UNCHANGED <<eCharset, eIndex, eBuf, ePc, cfg, dbFile, table, gen,
                 gMapped, gWrites, gWindows, genResult, sOut, sVisits, brute,
                 bOut, bruteResult, proc, hist, lastWriter>>

\* MmapOptions::new().offset(hashes_offset_in_file).map(&file): the mapping
\* runs from the offset to the end of the file, whatever num_hashes is.
MapLen(t, offset, num_hashes) == t.len - offset

\* the header is read, the digests are mapped, the slice is made
UseOpen ==
  /\ cmd = "use" /\ pc = "open"
  /\ ~UseOpenFails
  /\ LET header == table.header[1]
         offset == HeaderSize(header.charset)
         num_hashes == RangeEnd(header.charset, header.len)
         map_len == MapLen(table, offset, num_hashes)
     IN scan' = [scan EXCEPT !.len = header.len, !.charset = header.charset,
                       !.offset = offset, !.num_hashes = num_hashes,
                       !.map_len = map_len]
  /\ pc' = "records"
  /\ UNCHANGED <<eCharset, eIndex, eBuf, ePc, cfg, dbFile, table, cmd, gen,
                 gMapped, gWrites, gWindows, genResult, sOut, sVisits,
                 useResult, brute, bOut, bruteResult, proc, hist, lastWriter>>

\* let records = Database::with(|f| Ok(f.records.clone()))?
UseRecords ==
  /\ cmd = "use" /\ pc = "records"
  /\ LET db == LoadOrCreate(dbFile)
     IN IF db.ok
        THEN /\ scan' = [scan EXCEPT !.records = db.records,
                               !.pending = 0 .. (scan.num_hashes - 1)]
             /\ dbFile' = SavedDb(db.records)
             /\ pc' = "scan" /\ cmd' = cmd /\ useResult' = useResult
        ELSE /\ cmd' = "none" /\ pc' = "idle" /\ useResult' = "error"
             /\ scan' = UseIdle /\ dbFile' = dbFile
  /\ UNCHANGED <<eCharset, eIndex, eBuf, ePc, cfg, table, gen, gMapped,
                 gWrites, gWindows, genResult, sOut, sVisits, brute, bOut,
                 bruteResult, proc, hist, lastWriter>>

\* Entry item_index of the slice lies inside the mapping.
InsideMapping(map_len, item_index) == (item_index + 1) * HASH_LENGTH <= map_len

\* The users whose stored digest equals the hash: `if db_hash == hash`
Matching(records, hash) == { u \in DOMAIN records : records[u] = hash }


RECURSIVE EmitAll(_, _, _, _)
\* one println! per matching user, for entry item_index holding `hash`
EmitAll(out, users, item_index, cand) ==
  IF users = {} THEN out
  ELSE LET u == CHOOSE x \in users : TRUE
       IN EmitAll(BagAdd(out, <<u, item_index, cand>>), users \ {u},
                  item_index, cand)

\* par_iter().enumerate(): an entry handed to a task is handed to no other
ScanRest(pending, item_index) == pending \ {item_index}

\* one task of hashes.par_iter().enumerate().for_each_with(...), on an entry
\* inside the mapping
UseScanEntry ==
  /\ cmd = "use" /\ pc = "scan"
  /\ \E item_index \in scan.pending :
       /\ InsideMapping(scan.map_len, item_index)
       /\ LET hash == table.data[item_index + 1]
              cand == GetInto(scan.charset, item_index, ZeroBuf(scan.len))
          IN sOut' = EmitAll(sOut, Matching(scan.records, hash), item_index, cand)
       /\ sVisits' = BagAdd(sVisits, item_index)
       /\ scan' = [scan EXCEPT !.pending = ScanRest(@, item_index)]
  /\ UNCHANGED <<eCharset, eIndex, eBuf, ePc, cfg, dbFile, table, cmd, pc,
                 gen, gMapped, gWrites, gWindows, genResult, useResult, brute,
                 bOut, bruteResult, proc, hist, lastWriter>>

\* the same task on an entry of the slice beyond the end of the mapping: the
\* read is out of bounds, and yields whatever bytes lie there
UseScanBeyond ==
  /\ cmd = "use" /\ pc = "scan"
  /\ \E item_index \in scan.pending :
       /\ ~InsideMapping(scan.map_len, item_index)
       /\ \E hash \in Digests \cup {ZeroDigest} :
            LET cand == GetInto(scan.charset, item_index, ZeroBuf(scan.len))
            IN sOut' = EmitAll(sOut, Matching(scan.records, hash), item_index, cand)
       /\ sVisits' = BagAdd(sVisits, item_index)
       /\ scan' = [scan EXCEPT !.pending = ScanRest(@, item_index)]
  /\ UNCHANGED <<eCharset, eIndex, eBuf, ePc, cfg, dbFile, table, cmd, pc,
                 gen, gMapped, gWrites, gWindows, genResult, useResult, brute,
                 bOut, bruteResult, proc, hist, lastWriter>>

\* ... or the out-of-bounds read faults and the process dies
UseScanFault ==
  /\ cmd = "use" /\ pc = "scan"
  /\ \E item_index \in scan.pending : ~InsideMapping(scan.map_len, item_index)
  /\ cmd' = "none" /\ pc' = "idle" /\ useResult' = "crashed"
  /\ scan' = UseIdle /\ sOut' = EmptyBag /\ sVisits' = EmptyBag
  /\ UNCHANGED <<eCharset, eIndex, eBuf, ePc, cfg, dbFile, table, gen,
                 gMapped, gWrites, gWindows, genResult, brute, bOut,
                 bruteResult, proc, hist, lastWriter>>

\* println!("Spent {:?} going through whole table"); Ok(())
UseFinish ==
  /\ cmd = "use" /\ pc = "scan" /\ scan.pending = {}
  /\ cmd' = "none" /\ pc' = "idle"
  /\ useResult' = IF useResult = "running_fresh" THEN "ok_fresh" ELSE "ok"
  /\ scan' = [UseIdle EXCEPT !.num_hashes = scan.num_hashes,
                             !.map_len = scan.map_len]
  /\ UNCHANGED <<eCharset, eIndex, eBuf, ePc, cfg, dbFile, table, gen,
                 gMapped, gWrites, gWindows, genResult, sOut, sVisits, brute,
                 bOut, bruteResult, proc, hist, lastWriter>>

\* -------------------------------------------------------------- bruteforce
\* len_range values a search is run with: like the program's 4..=8 around its
\* item_len of 6, a range that holds the table's candidate length.
LenRanges ==
  { r \in (1 .. MaxLen) \X (1 .. MaxLen) :
      /\ r[1] <= cfg.item_len /\ cfg.item_len <= r[2]
      /\ RangeEnd(cfg.charset, r[2]) <= MaxTableEntries }

\* main: Command::Bruteforce(_) => bruteforce()
BruteStart ==
  /\ cmd = "none"
  /\ \E r \in LenRanges :
       brute' = [BruteIdle EXCEPT !.len_lo = r[1], !.len_hi = r[2]]
  /\ cmd' = "brute" /\ pc' = "records"
  /\ bOut' = EmptyBag /\ bruteResult' = "running"
  /\ UNCHANGED <<eCharset, eIndex, eBuf, ePc, cfg, dbFile, table, gen,
                 gMapped, gWrites, gWindows, genResult, scan, sOut, sVisits,
                 useResult, proc, hist, lastWriter>>

\* let records = Database::with(|db| Ok(db.records.clone()))?
BruteRecords ==
  /\ cmd = "brute" /\ pc = "records"
  /\ LET db == LoadOrCreate(dbFile)
     IN IF db.ok
        THEN /\ brute' = [brute EXCEPT
                            !.records = db.records, !.len = brute.len_lo,
                            !.searched = FALSE]
             /\ dbFile' = SavedDb(db.records)
             /\ pc' = "search" /\ cmd' = cmd /\ bruteResult' = bruteResult
        ELSE /\ cmd' = "none" /\ pc' = "idle" /\ bruteResult' = "error"
             /\ brute' = BruteIdle /\ dbFile' = dbFile
  /\ UNCHANGED <<eCharset, eIndex, eBuf, ePc, cfg, table, gen, gMapped,
                 gWrites, gWindows, genResult, scan, sOut, sVisits, useResult,
                 bOut, proc, hist, lastWriter>>

RECURSIVE EmitCracked(_, _, _)
\* one println! per user whose digest is the candidate's
EmitCracked(out, users, cand) ==
  IF users = {} THEN out
  ELSE LET u == CHOOSE x \in users : TRUE
       IN EmitCracked(BagAdd(out, <<u, cand>>), users \ {u}, cand)

RECURSIVE ForEachIndex(_, _, _, _, _)
\* range(len).into_par_iter().for_each_with(vec![0u8; len], |buf, i| ...): the
\* closure run on every index from i to the end of the range; the tasks share
\* nothing but stdout, so the lines printed do not depend on their order.
ForEachIndex(out, records, charset, len, i) ==
  IF i >= RangeEnd(charset, len) THEN out
  ELSE LET buf == GetInto(charset, i, ZeroBuf(len))
           hash == Md5(buf)
       IN ForEachIndex(EmitCracked(out, Matching(records, hash), buf),
                       records, charset, len, i + 1)

\* the body of `for len in params.len_range.clone()` for the current length
BruteTry ==
  /\ cmd = "brute" /\ pc = "search"
  /\ ~brute.searched
  /\ bOut' = ForEachIndex(bOut, brute.records, cfg.charset, brute.len, 0)
  /\ brute' = [brute EXCEPT !.searched = TRUE]
  /\ UNCHANGED <<eCharset, eIndex, eBuf, ePc, cfg, dbFile, table, cmd, pc,
                 gen, gMapped, gWrites, gWindows, genResult, scan, sOut,
                 sVisits, useResult, bruteResult, proc, hist, lastWriter>>

\* for len in params.len_range.clone(): the next length
BruteNextLen ==
  /\ cmd = "brute" /\ pc = "search" /\ brute.searched
  /\ brute.len < brute.len_hi
  /\ brute' = [brute EXCEPT
                 !.len = @ + 1,
                 !.searched = FALSE]
  /\ UNCHANGED <<eCharset, eIndex, eBuf, ePc, cfg, dbFile, table, cmd, pc,
                 gen, gMapped, gWrites, gWindows, genResult, scan, sOut,
                 sVisits, useResult, bOut, bruteResult, proc, hist,
                 lastWriter>>

\* Ok(()) after the last length
BruteFinish ==
  /\ cmd = "brute" /\ pc = "search" /\ brute.searched
  /\ brute.len >= brute.len_hi
  /\ cmd' = "none" /\ pc' = "idle" /\ bruteResult' = "ok"
  /\ brute' = [BruteIdle EXCEPT !.len_lo = brute.len_lo, !.len_hi = brute.len_hi]
  /\ UNCHANGED <<eCharset, eIndex, eBuf, ePc, cfg, dbFile, table, gen,
                 gMapped, gWrites, gWindows, genResult, scan, sOut, sVisits,
                 useResult, bOut, proc, hist, lastWriter>>

\* --------------------------------------------------------- Database::with
\* The invocations that may run at the same time.
Procs == {"p1", "p2"}

\* The commands of main that go through Database::with.
Kinds == {"add-user", "list-users", "auth", "bruteforce", "use-htable"}

ReadOnlyKinds == Kinds \ {"add-user"}

SearchKinds == {"bruteforce", "use-htable"}

\* Passwords given on the command line.
Passwords == Strings(1, 1)

\* Tasks of the parallel phase of a search.
Tasks == 0 .. 1

ProcIdle ==
  [pc |-> "idle", kind |-> "none", username |-> "", digest |-> 0,
   db |-> EmptyRecords, records |-> EmptyRecords, tasks |-> {}, out |-> ""]

HistIdle ==
  [before |-> EmptyRecords, loaded |-> EmptyRecords, otherAtLoad |-> "idle",
   interfered |-> FALSE, after |-> EmptyRecords]

\* Mutant of Insert: the record is not stored.
InsertNothing(records, username, digest) == records

\* db.records.insert(username, md5::compute(password).to_vec())
Insert(records, username, digest) ==
  [u \in DOMAIN records \cup {username} |->
     IF u = username THEN digest ELSE records[u]]

\* match db.records.get(&args.username) { ... } of Command::Auth
AuthOutcome(records, username, entered) ==
  IF username \notin DOMAIN records THEN "No such user"
  ELSE IF records[username] = entered THEN "Authentication successful!"
  ELSE "Bad password."

\* Mutant of Closure: a search takes the records out of the Database instead
\* of cloning them.
ClosureTakes(kind, db, username, digest) ==
  IF kind = "add-user" THEN Insert(db, username, digest) ELSE EmptyRecords

\* The Database after the closure `f(&mut db)` of the command: only add-user
\* changes it, the searches clone it, list-users and auth read it.
Closure(kind, db, username, digest) ==
  IF kind = "add-user" THEN Insert(db, username, digest) ELSE db

Other(p) == CHOOSE q \in Procs : q # p

\* Another invocation changes users.db: every invocation in flight is marked.
Interfere(h, p) ==
  [q \in Procs |->
     IF q # p /\ proc[q].pc \notin {"idle", "done", "failed"}
     THEN [h[q] EXCEPT !.interfered = TRUE] ELSE h[q]]

\* main: one of the commands that call Database::with is invoked
DbStart(p) ==
  /\ proc[p].pc = "idle"
  /\ \E kind \in Kinds, username \in Users, password \in Passwords :
       proc' = [proc EXCEPT ![p] =
                  [ProcIdle EXCEPT !.pc = "load", !.kind = kind,
                     !.username = IF kind \in {"add-user", "auth"}
                                  THEN username ELSE "",
                     !.digest = IF kind \in {"add-user", "auth"}
                                THEN Md5(password) ELSE 0]]
  /\ hist' = [hist EXCEPT ![p] = [HistIdle EXCEPT !.before = dbFile.records]]
  /\ UNCHANGED <<eCharset, eIndex, eBuf, ePc, cfg, dbFile, table, cmd, pc,
                 gen, gMapped, gWrites, gWindows, genResult, scan, sOut,
                 sVisits, useResult, brute, bOut, bruteResult, lastWriter>>

\* let mut db = Self::load_or_create()?
DbLoad(p) ==
  /\ proc[p].pc = "load"
  /\ LET r == LoadOrCreate(dbFile)
     IN IF r.ok
        THEN /\ proc' = [proc EXCEPT ![p].pc = "closure", ![p].db = r.records]
             /\ hist' = [hist EXCEPT ![p].loaded = dbFile.records,
                                     ![p].otherAtLoad = proc[Other(p)].pc]
        ELSE /\ proc' = [proc EXCEPT ![p].pc = "failed"]
             /\ hist' = hist
  /\ UNCHANGED <<eCharset, eIndex, eBuf, ePc, cfg, dbFile, table, cmd, pc,
                 gen, gMapped, gWrites, gWindows, genResult, scan, sOut,
                 sVisits, useResult, brute, bOut, bruteResult, lastWriter>>

\* let res = f(&mut db)
DbClosure(p) ==
  /\ proc[p].pc = "closure"
  /\ LET me == proc[p]
     IN proc' = [proc EXCEPT
          ![p].pc = "create",
          ![p].db = Closure(me.kind, me.db, me.username, me.digest),
          ![p].records = IF me.kind \in SearchKinds THEN me.db ELSE EmptyRecords,
          ![p].out = IF me.kind = "auth"
                     THEN AuthOutcome(me.db, me.username, me.digest) ELSE ""]
  /\ UNCHANGED <<eCharset, eIndex, eBuf, ePc, cfg, dbFile, table, cmd, pc,
                 gen, gMapped, gWrites, gWindows, genResult, scan, sOut,
                 sVisits, useResult, brute, bOut, bruteResult, hist,
                 lastWriter>>

\* db.save()?: let f = File::create(Self::PATH)?
DbSaveCreate(p) ==
  /\ proc[p].pc = "create"
  /\ dbFile' = TruncatedDb
  /\ proc' = [proc EXCEPT ![p].pc = "write"]
  /\ hist' = Interfere(hist, p)
  /\ UNCHANGED <<eCharset, eIndex, eBuf, ePc, cfg, table, cmd, pc, gen,
                 gMapped, gWrites, gWindows, genResult, scan, sOut, sVisits,
                 useResult, brute, bOut, bruteResult, lastWriter>>

\* db.save()?: bincode::serialize_into(snap::write::FrameEncoder::new(f), self);
\* a search then starts its parallel phase, the other commands return
DbSaveWrite(p) ==
  /\ proc[p].pc = "write"
  /\ dbFile' = SavedDb(proc[p].db)
  /\ proc' = [proc EXCEPT
       ![p].pc = IF proc[p].kind \in SearchKinds THEN "parallel" ELSE "done",
       ![p].tasks = IF proc[p].kind \in SearchKinds THEN Tasks ELSE {}]
  /\ hist' = [Interfere(hist, p) EXCEPT ![p].after = proc[p].db]
  /\ lastWriter' = p
  /\ UNCHANGED <<eCharset, eIndex, eBuf, ePc, cfg, table, cmd, pc, gen,
                 gMapped, gWrites, gWindows, genResult, scan, sOut, sVisits,
                 useResult, brute, bOut, bruteResult>>

\* one task of the parallel phase: it reads the cloned records
DbSearchTask(p) ==
  /\ proc[p].pc = "parallel"
  /\ \E t \in proc[p].tasks :
       proc' = [proc EXCEPT ![p].tasks = @ \ {t}]
  /\ UNCHANGED <<eCharset, eIndex, eBuf, ePc, cfg, dbFile, table, cmd, pc,
                 gen, gMapped, gWrites, gWindows, genResult, scan, sOut,
                 sVisits, useResult, brute, bOut, bruteResult, hist,
                 lastWriter>>

\* the search returns
DbSearchDone(p) ==
  /\ proc[p].pc = "parallel" /\ proc[p].tasks = {}
  /\ proc' = [proc EXCEPT ![p].pc = "done"]
  /\ UNCHANGED <<eCharset, eIndex, eBuf, ePc, cfg, dbFile, table, cmd, pc,
                 gen, gMapped, gWrites, gWindows, genResult, scan, sOut,
                 sVisits, useResult, brute, bOut, bruteResult, hist,
                 lastWriter>>

dbVars == <<proc, hist, lastWriter>>

DbIdle ==
  /\ proc = [p \in Procs |-> ProcIdle]
  /\ hist = [p \in Procs |-> HistIdle]
  /\ lastWriter = "none"

\* ----------------------------------------------------- table specification
tableVars ==
  <<cfg, dbFile, table, cmd, pc, gen, gMapped, gWrites, gWindows,
    genResult, scan, sOut, sVisits, useResult, brute, bOut, bruteResult>>

\* No table file, no command running.
TableIdle ==
  /\ table = NoTable
  /\ cmd = "none" /\ pc = "idle"
  /\ gen = GenIdle /\ gMapped = {} /\ gWrites = {} /\ gWindows = {}
  /\ genResult = "none"
  /\ scan = UseIdle /\ sOut = EmptyBag /\ sVisits = EmptyBag /\ useResult = "none"
  /\ brute = BruteIdle /\ bOut = EmptyBag /\ bruteResult = "none"

\* The literals of the program (an alphabet and a candidate length whose table
\* has at most MaxTableEntries entries), a credential store left by earlier
\* add-user commands, no table file, no command running.
TableInit ==
  /\ cfg \in { c \in [charset : Strings(1, TblMaxCharsetLen), item_len : 1 .. MaxLen] :
                 RangeEnd(c.charset, c.item_len) <= MaxTableEntries }
  /\ dbFile \in { SavedDb(r) : r \in Databases }
  /\ TableIdle

\* The enumerator with no call in progress.
EnumIdle == eCharset = <<>> /\ eIndex = 0 /\ eBuf = <<>> /\ ePc = "idle"

Init == TableInit /\ EnumIdle /\ DbIdle

Next ==
  \/ GenStart \/ GenCreate \/ GenWriteHeader \/ GenSetLen \/ GenOpenChunk
  \/ GenWriteHash \/ GenCloseChunk \/ GenFinish \/ GenError
  \/ UseStart \/ UseOpenError \/ UseOpen \/ UseRecords \/ UseScanEntry
  \/ UseScanBeyond \/ UseScanFault \/ UseFinish
  \/ BruteStart \/ BruteRecords \/ BruteTry \/ BruteNextLen \/ BruteFinish

vars == <<enumVars, tableVars, dbVars>>

Spec == Init /\ [][Next]_vars

\* ------------------------------------------------ enumerator specification
EnumNext == GetIntoCall \/ GetIntoPanic

\* The enumerator's inputs; no file, no command, no invocation.
EnumSpecInit ==
  /\ EnumInit
  /\ cfg = [charset |-> <<>>, item_len |-> 0] /\ dbFile = MissingDb /\ TableIdle
  /\ DbIdle

SpecEnum == EnumSpecInit /\ [][EnumNext]_vars

\* ------------------------------------------------- users.db specification
\* users.db missing or left by earlier commands; two invocations not yet started.
DbInit ==
  /\ dbFile \in {MissingDb} \cup { SavedDb(r) : r \in Databases }
  /\ cfg = [charset |-> <<>>, item_len |-> 0] /\ TableIdle
  /\ EnumIdle /\ DbIdle

DbNext ==
  \E p \in Procs :
    \/ DbStart(p) \/ DbLoad(p) \/ DbClosure(p) \/ DbSaveCreate(p)
    \/ DbSaveWrite(p) \/ DbSearchTask(p) \/ DbSearchDone(p)

SpecDb == DbInit /\ [][DbNext]_vars

\* ---------------------------------------------------- claims: table engine
\* The candidate Charset::get_into decodes from index i for the table's length.
Candidate(i) == GetInto(cfg.charset, i, ZeroBuf(cfg.item_len))

\* The length the table file must have: header, then n^L digests.
ExpectedLen(charset, len) ==
  HeaderSize(charset) + RangeEnd(charset, len) * HASH_LENGTH

\* C1: when gen_htable returns successfully, every index i in [0, n^L) has
\* had its slot written with the digest of the candidate decoded from i, for
\* every chunk size (dividing n^L or not, larger than n^L or not).
C1_EveryIndexWritten ==
  genResult = "ok" =>
    \A i \in 0 .. (TotalHashes - 1) :
      /\ \E w \in gWrites : w.slot = i
      /\ table.data[i + 1] = Md5(Candidate(i))

\* The table file has a header whose n^L disagrees with the file's length.
SizeMismatch ==
  /\ table.exists /\ table.header # <<>>
  /\ table.len # ExpectedLen(table.header[1].charset, table.header[1].len)

\* C2: whenever the table file's length differs from header_size + n^L * 16,
\* use_htable ends with an error before any entry is compared and without
\* emitting a match; it reads no entry beyond the end of the file.
C2_SizeMismatchIsError ==
  (SizeMismatch /\ (cmd = "use" \/ useResult # "none")) =>
    /\ ~(cmd = "use" /\ pc = "scan")
    /\ useResult \in {"running", "running_fresh", "error"}
    /\ sVisits = EmptyBag /\ sOut = EmptyBag

\* The (identity, candidate) pairs a scan printed.
ScanPairs == { <<e[1], e[3]>> : e \in DOMAIN sOut }

\* The (identity, candidate) pairs a search printed for candidates of length len.
BrutePairs(len) == { e \in DOMAIN bOut : Len(e[2]) = len }

\* C5: the matches use_htable reports over a table freshly built by
\* gen_htable equal the matches bruteforce reports for the table's length,
\* over the same alphabet and store.
C5_ScanAgreesWithBruteforce ==
  (useResult = "ok_fresh" /\ bruteResult = "ok") =>
    ScanPairs = BrutePairs(cfg.item_len)

\* C5 where the bug of C1 does not bite: when the chunk size divides n^L, so
\* that the build wrote every slot, the scan and the search do agree.
C5_AgreesWhenChunksDivide ==
  (useResult = "ok_fresh" /\ bruteResult = "ok"
     /\ TotalHashes % (gen.max_bytes_per_chunk \div HASH_LENGTH) = 0) =>
    ScanPairs = BrutePairs(cfg.item_len)

\* Entry i of the table file exists and holds the digest of user u.
StoredMatch(u, i) ==
  /\ i < SlotsIn(table)
  /\ table.data[i + 1] = dbFile.records[u]

\* C6: a completed use_htable scan visits every index in [0, n^L) exactly
\* once, emits exactly once every (identity, index) pair whose stored digest
\* equals the identity's digest, and emits nothing for any other pair.
C6_ScanExactlyOnce ==
  useResult \in {"ok", "ok_fresh"} =>
    /\ DOMAIN sVisits = 0 .. (scan.num_hashes - 1)
    /\ \A i \in DOMAIN sVisits : sVisits[i] = 1
    /\ \A e \in DOMAIN sOut :
         /\ sOut[e] = 1
         /\ e[1] \in DOMAIN dbFile.records
         /\ StoredMatch(e[1], e[2])
    /\ \A u \in DOMAIN dbFile.records : \A i \in 0 .. (scan.num_hashes - 1) :
         StoredMatch(u, i) =>
           \E e \in DOMAIN sOut : e[1] = u /\ e[2] = i

\* C6 where the bug of C2 does not bite: a completed scan of a table whose
\* mapped length is that of its n^L entries visits every index once and emits
\* exactly the matching pairs, once each, whatever the order of the tasks.
C6_ScanOfWellSizedTable ==
  scan.map_len = scan.num_hashes * HASH_LENGTH => C6_ScanExactlyOnce

\* The build has passed file.set_len (and may since have ended, well or not).
PreSized ==
  \/ cmd = "gen" /\ pc \in {"loop", "fill"}
  \/ cmd # "gen" /\ genResult \in {"ok", "aborted_sized"}

\* C7: the table file has its final length header_size + n^L * 16 before the
\* first digest is written, and at every point after pre-sizing, the end of
\* the build by an error included, the file has that length.
C7_LengthFixedAfterPresize ==
  /\ PreSized => table.len = HeaderSize(cfg.charset) + TotalHashes * HASH_LENGTH
  /\ gWrites # {} => PreSized

\* C7 witness: a build of a table of two entries or more that ended with an
\* error after pre-sizing, having written some digests and not others.
C7_Witness ==
  /\ cmd = "none" /\ genResult = "aborted_sized"
  /\ TotalHashes >= 2
  /\ table.len = HeaderSize(cfg.charset) + TotalHashes * HASH_LENGTH
  /\ \E i, j \in 1 .. Len(table.data) :
       table.data[i] # ZeroDigest /\ table.data[j] = ZeroDigest

\* Two byte windows [lo, hi) share no byte.
Disjoint(w1, w2) == w1[2] <= w2[1] \/ w2[2] <= w1[1]

\* C8: no slot is written by two different tasks; the task of index_in_chunk
\* writes only the slot of item first_item_index + index_in_chunk; the windows
\* of different chunks do not overlap and lie inside the digest area; at most
\* one window is mapped at any time.
C8_DisjointWrites ==
  /\ \A w1, w2 \in gWrites : w1.slot = w2.slot => w1 = w2
  /\ \A w \in gWrites :
       /\ w.slot = w.item
       /\ w.item = w.chunk * (gen.max_bytes_per_chunk \div HASH_LENGTH)
                   + w.index_in_chunk
       /\ w.slot < TotalHashes
  /\ \A c1, c2 \in gWindows :
       /\ c1[2][1] >= HeaderSize(cfg.charset) /\ c1[2][2] <= table.len
       /\ c1[1] # c2[1] => Disjoint(c1[2], c2[2])
  /\ Cardinality(gMapped) <= 1

\* C8 witness: a finished build of two chunks or more, of two hashes or more
\* each, every one written.
C8_Witness ==
  /\ genResult = "ok"
  /\ Cardinality(gWindows) >= 2
  /\ Cardinality(gWrites) >= 4

\* ------------------------------------------------------- claims: users.db
AddedBoth(p, q) ==
  /\ p # q
  /\ proc[p].pc = "done" /\ proc[q].pc = "done"
  /\ proc[p].kind = "add-user" /\ proc[q].kind = "add-user"
  /\ proc[p].username # proc[q].username

\* The invocation had not begun to save when the other one loaded.
NotYetSaving(pcAtLoad) == pcAtLoad \in {"idle", "load", "closure", "create"}

\* C9: two add-user invocations for different usernames that both load before
\* either saves leave the store as the one that saved last made it, without
\* the other's record; run one after the other they leave both records.
C9_LastCloserWins ==
  \A p, q \in Procs :
    AddedBoth(p, q) =>
      /\ (NotYetSaving(hist[p].otherAtLoad) /\ NotYetSaving(hist[q].otherAtLoad)
            /\ lastWriter = q) =>
           /\ dbFile.state = "ok"
           /\ hist[p].loaded = hist[q].loaded
           /\ DOMAIN dbFile.records = DOMAIN hist[q].loaded \cup {proc[q].username}
           /\ dbFile.records[proc[q].username] = proc[q].digest
           /\ \A u \in DOMAIN hist[q].loaded \ {proc[q].username} :
                dbFile.records[u] = hist[q].loaded[u]
      /\ hist[q].otherAtLoad = "done" =>
           /\ dbFile.state = "ok"
           /\ proc[p].username \in DOMAIN dbFile.records
           /\ proc[q].username \in DOMAIN dbFile.records
           /\ dbFile.records[proc[p].username] = proc[p].digest
           /\ dbFile.records[proc[q].username] = proc[q].digest

\* C9 witness: both add-user invocations are done and the store holds no
\* record for the username of the one that saved first.
C9_Witness ==
  \E p, q \in Procs :
    /\ AddedBoth(p, q)
    /\ lastWriter = q
    /\ dbFile.state = "ok"
    /\ proc[q].username \in DOMAIN dbFile.records
    /\ proc[p].username \notin DOMAIN dbFile.records

\* The invocation has saved the store.
Saved(p) == proc[p].pc \in {"parallel", "done"}

\* C10: a search or read-only command that runs with no other invocation
\* changing the store meanwhile leaves the records it found: the records
\* persisted after its save are those persisted when it started; and during
\* the parallel phase of a search the records the tasks read are the clone
\* taken before that phase.
C10_ReadOnlyCommands ==
  \A p \in Procs :
    (proc[p].kind \in ReadOnlyKinds /\ Saved(p)) =>
      /\ ~hist[p].interfered => hist[p].after = hist[p].before
      /\ proc[p].kind \in SearchKinds => proc[p].records = hist[p].loaded

\* C10 witness: a search that found a store with records in it has saved the
\* store and is in its parallel phase, one task done, with the other
\* invocation not started.
C10_Witness ==
  \E p \in Procs :
    /\ proc[p].kind \in SearchKinds
    /\ proc[p].pc = "parallel" /\ Cardinality(proc[p].tasks) = 1
    /\ ~hist[p].interfered
    /\ hist[p].before # EmptyRecords
    /\ dbFile = SavedDb(hist[p].before)

====
